---- MODULE Spec2Model ----
(***************************************************************************)
(* A model of the Leopard interpreter's runtime object model, lexical      *)
(* environments, AST rendering and read-eval-print loop.                   *)
(*                                                                         *)
(*   object/object.go   Environment, HashKey, Inspect                      *)
(*   ast                String() of the expression nodes                   *)
(*   repl/repl.go       Start, printParserErrors                           *)
(*                                                                         *)
(* Go pointers are modelled as indices into a heap (a sequence); Nil is    *)
(* the nil pointer, NilObj and NilNode the nil interface values.  A Go     *)
(* string that the code only concatenates is a TLA+ string; one whose      *)
(* bytes it reads is a sequence of characters; a uint64 is a sequence of   *)
(* eight bytes, least significant first.  Map iteration, whose order Go    *)
(* leaves unspecified, is a choice among all the orders.                   *)
(***************************************************************************)
EXTENDS Integers, Sequences, FiniteSets

VARIABLES
    envs,         \* heap of *Environment: envs[e] = [store, outer]
    createdWith,  \* history: createdWith[e] = the argument e was constructed with
    lastOp,       \* history: the Environment call made last (SpecEnv), with its result
    pc,           \* repl.Start: position in the loop
    in,           \* repl.Start: the lines of the io.Reader not yet scanned, in order
    input,        \* repl.Start: the lines the scanner has delivered, in order
    out,          \* repl.Start: everything written to the io.Writer, in order
    env,          \* repl.Start: the local variable env
    evalLog,      \* history: one record per call of evaluator.Eval made by Start
    heap,         \* heap of Objects
    hashKeys,     \* history: hashKeys[o] = what the calls of HashKey() on o returned
    inspected,    \* history: inspected[o] = what the calls of Inspect() on o returned
    stack,        \* AST nodes under construction; the top is the node under study
    rendered      \* history: what the calls of String() on the top node returned

envVars  == <<envs, createdWith, lastOp>>
replVars == <<pc, in, input, out, env, evalLog>>
objVars  == <<heap, hashKeys, inspected>>
astVars  == <<stack, rendered>>
vars     == <<envs, createdWith, lastOp, pc, in, input, out, env, evalLog,
              heap, hashKeys, inspected, stack, rendered>>

\* The nil pointer.
Nil == 0

\* The nil Object interface value.
NilObj == [type |-> "<nil>"]

\* The nil ast.Expression interface value.
NilNode == [kind |-> "<nil>"]

(***************************************************************************)
(* Bounds                                                                  *)
(***************************************************************************)
\* The Environments allocated.
MaxEnvs == 3

\* The bindings held by all the stores together.
MaxBindings == 2

\* The nodes of the ASTs under construction together.
MaxNodes == 5

\* The arguments of a call expression, the elements of an array literal and
\* the pairs of a hash literal.
MaxArgs == 2

\* The calls of String(), Inspect() or HashKey() made on one value.
MaxCalls == 2

\* The Objects allocated.
MaxObjs == 2

\* The lines the REPL reads before its input ends.
MaxLines == 3

(***************************************************************************)
(* Program constants and the universes of values                           *)
(***************************************************************************)
\* The bytes of a uint64 (HashKey.Value).
WordBytes == 8

\* bufio.MaxScanTokenSize, the buffer limit of the Scanner bufio.NewScanner
\* returns: a line is delivered only if it is shorter.
MaxScanTokenSize == 65536

\* Variable names used in the environments.
Names == {"a", "b"}

(***************************************************************************)
(* Objects (object/object.go).  An Object value is a record tagged with    *)
(* its ObjectType.                                                         *)
(***************************************************************************)
INTEGER_OBJ == "INTEGER"

IntegerObj(v) == [type |-> INTEGER_OBJ, Value |-> v]

\* The Objects bound in environments.
Values == {IntegerObj(1), IntegerObj(2)}

(***************************************************************************)
(* Environment (object/object.go)                                          *)
(***************************************************************************)
EmptyStore == [n \in {} |-> NilObj]

\* NewEnvironment: allocates &Environment{store: make(map), outer: nil}.
\* The heap after the allocation; the new pointer is Len of the result.
NewEnvironment(h) == Append(h, [store |-> EmptyStore, outer |-> Nil])

\* A constructor that leaves outer unset.
NewEnclosedEnvironmentNoOuter(h, outer) == NewEnvironment(h)

\* A constructor that links the new environment to itself.
NewEnclosedEnvironmentSelfOuter(h, outer) ==
    LET h1 == NewEnvironment(h)
    IN  [h1 EXCEPT ![Len(h1)].outer = Len(h1)]

\* NewEnclosedEnvironment: env := NewEnvironment(); env.outer = outer.
NewEnclosedEnvironment(h, outer) ==
    LET h1 == NewEnvironment(h)
    IN  [h1 EXCEPT ![Len(h1)].outer = outer]

\* A lookup that consults the enclosing store directly instead of recursing.
GetOneLevel(h, e, name) ==
    IF name \in DOMAIN h[e].store
    THEN [obj |-> h[e].store[name], ok |-> TRUE]
    ELSE IF h[e].outer # Nil /\ name \in DOMAIN h[h[e].outer].store
         THEN [obj |-> h[h[e].outer].store[name], ok |-> TRUE]
         ELSE [obj |-> NilObj, ok |-> FALSE]

\* Environment.Get: obj, ok := e.store[name]; if !ok && e.outer != nil then
\* obj, ok = e.outer.Get(name); return obj, ok.
RECURSIVE Get(_, _, _)
Get(h, e, name) ==
    LET own == IF name \in DOMAIN h[e].store
               THEN [obj |-> h[e].store[name], ok |-> TRUE]
               ELSE [obj |-> NilObj, ok |-> FALSE]
    IN  IF ~own.ok /\ h[e].outer # Nil
        THEN Get(h, h[e].outer, name)
        ELSE own

\* The store after m[name] = val.
MapAssign(m, name, val) ==
    [n \in DOMAIN m \cup {name} |-> IF n = name THEN val ELSE m[n]]

\* An assignment that writes into the environment that already binds name.
RECURSIVE SetWhereBound(_, _, _, _)
SetWhereBound(h, e, name, val) ==
    IF name \notin DOMAIN h[e].store /\ h[e].outer # Nil
       /\ Get(h, h[e].outer, name).ok
    THEN SetWhereBound(h, h[e].outer, name, val)
    ELSE [h EXCEPT ![e].store = MapAssign(h[e].store, name, val)]

\* A Set that replaces the store by a map holding the new binding only.
SetFreshStore(h, e, name, val) ==
    [h EXCEPT ![e].store = MapAssign(EmptyStore, name, val)]

\* Environment.Set: e.store[name] = val (the heap afterwards; Set returns val).
Set(h, e, name, val) == [h EXCEPT ![e].store = MapAssign(h[e].store, name, val)]

NoOp == [op |-> "none", env |-> Nil, outer |-> Nil, name |-> "",
         val |-> NilObj, obj |-> NilObj, ok |-> FALSE]

InitEnv ==
    /\ envs = <<>>
    /\ createdWith = <<>>
    /\ lastOp = NoOp

CallNewEnvironment ==
    /\ Len(envs) < MaxEnvs
    /\ envs' = NewEnvironment(envs)
    /\ createdWith' = Append(createdWith, Nil)
    /\ lastOp' = [NoOp EXCEPT !.op = "NewEnvironment", !.env = Len(envs')]

CallNewEnclosedEnvironment ==
    \E outer \in DOMAIN envs :
        /\ Len(envs) < MaxEnvs
        /\ envs' = NewEnclosedEnvironment(envs, outer)
        /\ createdWith' = Append(createdWith, outer)
        /\ lastOp' = [NoOp EXCEPT !.op = "NewEnclosedEnvironment",
                                  !.env = Len(envs'), !.outer = outer]

\* The number of bindings held by the stores of h[1 .. k].
RECURSIVE Bindings(_, _)
Bindings(h, k) ==
    IF k = 0 THEN 0 ELSE Cardinality(DOMAIN h[k].store) + Bindings(h, k - 1)

CallSet ==
    \E e \in DOMAIN envs, name \in Names, val \in Values :
        /\ name \in DOMAIN envs[e].store \/ Bindings(envs, Len(envs)) < MaxBindings
        /\ envs' = Set(envs, e, name, val)
        /\ lastOp' = [NoOp EXCEPT !.op = "Set", !.env = e, !.name = name,
                                  !.val = val, !.obj = val]
        /\ UNCHANGED createdWith

CallGet ==
    \E e \in DOMAIN envs, name \in Names :
        LET r == Get(envs, e, name)
        IN  /\ lastOp' = [NoOp EXCEPT !.op = "Get", !.env = e, !.name = name,
                                      !.obj = r.obj, !.ok = r.ok]
            /\ UNCHANGED <<envs, createdWith>>

(***************************************************************************)
(* The states of the parts a specification leaves alone.                   *)
(***************************************************************************)
IdleRepl ==
    /\ pc = "idle"
    /\ in = <<>>
    /\ input = <<>>
    /\ out = <<>>
    /\ env = Nil
    /\ evalLog = <<>>

IdleObj ==
    /\ heap = <<>>
    /\ hashKeys = <<>>
    /\ inspected = <<>>

IdleAst ==
    /\ stack = <<>>
    /\ rendered = <<>>

(***************************************************************************)
(* SpecEnv: any sequence of NewEnvironment, NewEnclosedEnvironment, Set    *)
(* and Get calls on up to MaxEnvs environments.                            *)
(***************************************************************************)
InitEnvSpec == InitEnv /\ IdleRepl /\ IdleObj /\ IdleAst

NextEnv ==
    \/ CallNewEnvironment /\ UNCHANGED <<replVars, objVars, astVars>>
    \/ CallNewEnclosedEnvironment /\ UNCHANGED <<replVars, objVars, astVars>>
    \/ CallSet /\ UNCHANGED <<replVars, objVars, astVars>>
    \/ CallGet /\ UNCHANGED <<replVars, objVars, astVars>>

SpecEnv == InitEnvSpec /\ [][NextEnv]_vars

\* The environments of e's chain, innermost first: e, e.outer, e.outer.outer, ...
\* (followed for at most Len(h) links).
RECURSIVE ChainUpTo(_, _, _)
ChainUpTo(h, e, k) ==
    IF e = Nil \/ k = 0 THEN <<>> ELSE <<e>> \o ChainUpTo(h, h[e].outer, k - 1)

Chain(h, e) == ChainUpTo(h, e, Len(h))

\* What a lookup of name from e is to return: the binding of the nearest
\* environment of the chain that binds name, not-found when none does.
Nearest(h, e, name) ==
    LET c == Chain(h, e)
        binders == {i \in DOMAIN c : name \in DOMAIN h[c[i]].store}
    IN  IF binders = {}
        THEN [obj |-> NilObj, ok |-> FALSE]
        ELSE LET i == CHOOSE j \in binders : \A k \in binders : j <= k
             IN  [obj |-> h[c[i]].store[name], ok |-> TRUE]

\* C1: Get(name) on e returns (v, true) with v the value bound to name in the
\* nearest environment of e's chain that has name in its store, and ok = false
\* exactly when no environment of the chain binds name.
C1_GetReturnsNearestBinding ==
    /\ \A e \in DOMAIN envs : \A name \in Names :
           Get(envs, e, name) = Nearest(envs, e, name)
    /\ lastOp.op = "Get" =>
           /\ [obj |-> lastOp.obj, ok |-> lastOp.ok]
                  = Nearest(envs, lastOp.env, lastOp.name)
           /\ lastOp.ok <=> \E x \in DOMAIN envs :
                  /\ \E i \in DOMAIN Chain(envs, lastOp.env) :
                         Chain(envs, lastOp.env)[i] = x
                  /\ lastOp.name \in DOMAIN envs[x].store

\* A Get that found the name two links out, past two environments that do not
\* bind it, while the name is bound to another value elsewhere.
C1_Witness ==
    /\ lastOp.op = "Get"
    /\ lastOp.ok
    /\ LET e == lastOp.env
       IN  /\ lastOp.name \notin DOMAIN envs[e].store
           /\ envs[e].outer # Nil
           /\ lastOp.name \notin DOMAIN envs[envs[e].outer].store
           /\ envs[envs[e].outer].outer # Nil
           /\ lastOp.name \in DOMAIN envs[envs[envs[e].outer].outer].store

\* C2: Set(name, val) on e binds name only in e's own store: every other
\* environment is unchanged, Get on e then returns val, and Get on every
\* environment reachable through e.outer returns what it returned before.
C2_SetBindsOnlyOwnStore ==
    [][lastOp'.op = "Set" =>
          LET e == lastOp'.env
              name == lastOp'.name
          IN  /\ DOMAIN envs' = DOMAIN envs
              /\ \A x \in DOMAIN envs : x # e => envs'[x] = envs[x]
              /\ envs'[e].outer = envs[e].outer
              /\ \A n \in DOMAIN envs[e].store \ {name} :
                     /\ n \in DOMAIN envs'[e].store
                     /\ envs'[e].store[n] = envs[e].store[n]
              /\ DOMAIN envs'[e].store = DOMAIN envs[e].store \cup {name}
              /\ Get(envs', e, name) = [obj |-> lastOp'.val, ok |-> TRUE]
              /\ \A i \in DOMAIN Chain(envs, e) : i > 1 =>
                     \A n \in Names :
                         Get(envs', Chain(envs, e)[i], n)
                             = Get(envs, Chain(envs, e)[i], n)]_vars

\* A Set that shadows: the enclosing environment binds the same name to
\* another value, and still does.
C2_Witness ==
    /\ lastOp.op = "Set"
    /\ envs[lastOp.env].outer # Nil
    /\ LET o == envs[lastOp.env].outer
       IN  /\ lastOp.name \in DOMAIN envs[o].store
           /\ envs[o].store[lastOp.name] # lastOp.val
           /\ Get(envs, o, lastOp.name).obj # lastOp.val
           /\ Get(envs, lastOp.env, lastOp.name).obj = lastOp.val

\* C3: a name once bound in an environment's store stays bound in that store:
\* the set of names bound in each environment only grows, and a binding changes
\* value only by a Set of that name on that environment.
C3_BindingsOnlyGrow ==
    [][\A e \in DOMAIN envs :
          /\ e \in DOMAIN envs'
          /\ \A n \in DOMAIN envs[e].store :
                 /\ n \in DOMAIN envs'[e].store
                 /\ envs'[e].store[n] # envs[e].store[n] =>
                        /\ lastOp'.op = "Set"
                        /\ lastOp'.env = e
                        /\ lastOp'.name = n
                        /\ lastOp'.val = envs'[e].store[n]]_vars

\* A Set on an environment that holds two bindings and has an enclosed
\* environment: the binding that was there first is still there.
C3_Witness ==
    /\ lastOp.op = "Set"
    /\ DOMAIN envs[lastOp.env].store = Names
    /\ \E c \in DOMAIN envs : envs[c].outer = lastOp.env

\* C10: NewEnclosedEnvironment(outer) returns a fresh environment with an empty
\* store that reads through to outer; a later Set on outer is visible to Get on
\* the environments created from it unless they shadow the name; a Set on an
\* environment created from outer is visible neither to Get on outer nor to Get
\* on another environment created from the same outer.
C10_EnclosedSharesOuter ==
    [][/\ lastOp'.op = "NewEnclosedEnvironment" =>
              LET c == lastOp'.env
              IN  /\ c = Len(envs) + 1
                  /\ DOMAIN envs' = 1 .. c
                  /\ \A x \in DOMAIN envs : envs'[x] = envs[x]
                  /\ DOMAIN envs'[c].store = {}
                  /\ \A n \in Names :
                         Get(envs', c, n) = Get(envs, lastOp'.outer, n)
       /\ lastOp'.op = "Set" =>
              LET e == lastOp'.env
                  name == lastOp'.name
              IN  /\ \A c \in DOMAIN envs : createdWith[c] = e =>
                         IF name \in DOMAIN envs'[c].store
                         THEN Get(envs', c, name) = Get(envs, c, name)
                         ELSE Get(envs', c, name)
                                  = [obj |-> lastOp'.val, ok |-> TRUE]
                  /\ createdWith[e] # Nil =>
                         /\ \A n \in Names :
                                Get(envs', createdWith[e], n)
                                    = Get(envs, createdWith[e], n)
                         /\ \A s \in DOMAIN envs :
                                s # e /\ createdWith[s] = createdWith[e] =>
                                    \A n \in Names :
                                        Get(envs', s, n) = Get(envs, s, n)]_vars

\* A Set on an environment from which two environments were created earlier,
\* one that shadows the name and one that does not and so sees the new value.
C10_Witness ==
    /\ lastOp.op = "Set"
    /\ \E c, s \in DOMAIN envs :
           /\ c # s
           /\ createdWith[c] = lastOp.env
           /\ createdWith[s] = lastOp.env
           /\ lastOp.name \notin DOMAIN envs[c].store
           /\ Get(envs, c, lastOp.name).obj = lastOp.val
           /\ lastOp.name \in DOMAIN envs[s].store
           /\ Get(envs, s, lastOp.name).obj # lastOp.val

\* Get(name) on e returns within k nested calls: a call returns when its own
\* store binds name or it has no outer, and otherwise when the call it makes
\* on its outer returns.
RECURSIVE GetReturnsWithin(_, _, _, _)
GetReturnsWithin(h, e, name, k) ==
    /\ k > 0
    /\ \/ name \in DOMAIN h[e].store
       \/ h[e].outer = Nil
       \/ GetReturnsWithin(h, h[e].outer, name, k - 1)

\* C11: after any sequence of NewEnvironment, NewEnclosedEnvironment and Set
\* calls the outer chain of every environment is finite and acyclic: outer
\* still is what it was assigned at creation (createdWith), nil or an
\* environment that existed before; the chain visits no environment twice and
\* ends in an environment without outer; so Get returns within as many nested
\* calls as the chain has environments, for bound and for unbound names.
C11_OuterChainAcyclicGetTerminates ==
    /\ DOMAIN createdWith = DOMAIN envs
    /\ \A e \in DOMAIN envs :
           LET c == Chain(envs, e)
           IN  /\ envs[e].outer = createdWith[e]
               /\ createdWith[e] \in {Nil} \cup 1 .. (e - 1)
               /\ \A i, j \in DOMAIN c : c[i] = c[j] => i = j
               /\ envs[c[Len(c)]].outer = Nil
               /\ \A name \in Names : GetReturnsWithin(envs, e, name, Len(c))

\* A Get of a name no environment of the chain binds, made on the innermost
\* of three chained environments whose outermost binds the other name: the
\* call went through the whole chain and returned not-found.
C11_Witness ==
    /\ lastOp.op = "Get"
    /\ ~lastOp.ok
    /\ Len(Chain(envs, lastOp.env)) >= 3
    /\ LET c == Chain(envs, lastOp.env)
       IN  /\ envs[c[Len(c)]].outer = Nil
           /\ DOMAIN envs[c[Len(c)]].store = Names \ {lastOp.name}
           /\ GetReturnsWithin(envs, lastOp.env, lastOp.name, Len(c))
           /\ ~GetReturnsWithin(envs, lastOp.env, lastOp.name, Len(c) - 1)

(***************************************************************************)
(* AST (package ast).  A node is a record tagged with its Go type; String  *)
(* is modelled as the set of strings a call may return: a singleton unless *)
(* the node holds a HashLiteral, whose Pairs map is ranged over in an      *)
(* order the Go runtime chooses anew at every range statement.             *)
(***************************************************************************)
Identifier(v) == [kind |-> "Identifier", Value |-> v]

PrefixExpression(op, right) ==
    [kind |-> "PrefixExpression", Operator |-> op, Right |-> right]

InfixExpression(left, op, right) ==
    [kind |-> "InfixExpression", Left |-> left, Operator |-> op, Right |-> right]

CallExpression(function, arguments) ==
    [kind |-> "CallExpression", Function |-> function, Arguments |-> arguments]

ArrayLiteral(elements) == [kind |-> "ArrayLiteral", Elements |-> elements]

IndexExpression(left, index) ==
    [kind |-> "IndexExpression", Left |-> left, Index |-> index]

\* Pairs is a map keyed by the key node's pointer: its entries are listed here
\* as a sequence of <<key, value>>, one per pointer, in no meaningful order.
HashLiteral(pairs) == [kind |-> "HashLiteral", Pairs |-> pairs]

ExpressionStatement(expression) ==
    [kind |-> "ExpressionStatement", Expression |-> expression]

ReturnStatement(value) ==
    [kind |-> "ReturnStatement", Token |-> [Type |-> "RETURN", Literal |-> "return"],
     ReturnValue |-> value]

BlockStatement(statements) == [kind |-> "BlockStatement", Statements |-> statements]

\* strings.Join(elems, sep)
RECURSIVE Join(_, _)
Join(elems, sep) ==
    IF Len(elems) = 0 THEN ""
    ELSE IF Len(elems) = 1 THEN elems[1]
    ELSE elems[1] \o sep \o Join(Tail(elems), sep)

\* for k := range m: the sequences of keys a range over the map m may deliver,
\* which are all the orderings of its keys.
RECURSIVE KeyOrders(_)
KeyOrders(keys) ==
    IF keys = {} THEN {<<>>}
    ELSE UNION {{<<k>> \o rest : rest \in KeyOrders(keys \ {k})} : k \in keys}

RangeOrders(m) == KeyOrders(DOMAIN m)

RECURSIVE String(_)

\* for _, x := range nodes { out = append(out, x.String()) }
RECURSIVE StringsOf(_)
StringsOf(nodes) ==
    IF Len(nodes) = 0 THEN {<<>>}
    ELSE {<<s>> \o rest : s \in String(nodes[1]), rest \in StringsOf(Tail(nodes))}

\* for _, s := range stmts { out.WriteString(s.String()) }
ConcatStrings(nodes) == {Join(ss, "") : ss \in StringsOf(nodes)}

IdentifierString(i) == {i.Value}

PrefixExpressionString(pe) ==
    {"(" \o pe.Operator \o r \o ")" : r \in String(pe.Right)}

\* An infix rendering without the enclosing parentheses.
InfixExpressionStringBare(ie) ==
    {l \o " " \o ie.Operator \o " " \o r :
        l \in String(ie.Left), r \in String(ie.Right)}

InfixExpressionString(ie) ==
    {"(" \o l \o " " \o ie.Operator \o " " \o r \o ")" :
        l \in String(ie.Left), r \in String(ie.Right)}

CallExpressionString(ce) ==
    {f \o "(" \o Join(args, ", ") \o ")" :
        f \in String(ce.Function), args \in StringsOf(ce.Arguments)}

ArrayLiteralString(al) ==
    {"[" \o Join(elements, ", ") \o "]" : elements \in StringsOf(al.Elements)}

IndexExpressionString(ie) ==
    {"(" \o l \o "[" \o i \o "])" : l \in String(ie.Left), i \in String(ie.Index)}

\* pairs = append(pairs, key.String()+":"+value.String()) for each entry, in
\* the order the range statement delivers them.
RECURSIVE HashLiteralPairs(_)
HashLiteralPairs(entries) ==
    IF Len(entries) = 0 THEN {<<>>}
    ELSE {<<k \o ":" \o v>> \o rest :
             k \in String(entries[1][1]), v \in String(entries[1][2]),
             rest \in HashLiteralPairs(Tail(entries))}

HashLiteralString(hl) ==
    UNION {{"{" \o Join(pairs, ", ") \o "}" :
               pairs \in HashLiteralPairs([i \in DOMAIN order |-> hl.Pairs[order[i]]])} :
           order \in RangeOrders(hl.Pairs)}

ExpressionStatementString(es) ==
    IF es.Expression # NilNode THEN String(es.Expression) ELSE {""}

ReturnStatementString(rs) ==
    IF rs.ReturnValue # NilNode
    THEN {rs.Token.Literal \o " " \o v \o ";" : v \in String(rs.ReturnValue)}
    ELSE {rs.Token.Literal \o " " \o ";"}

BlockStatementString(bs) == ConcatStrings(bs.Statements)

\* Node.String(), by the dynamic type of the node.
String(n) ==
    CASE n.kind = "Identifier" -> IdentifierString(n)
      [] n.kind = "PrefixExpression" -> PrefixExpressionString(n)
      [] n.kind = "InfixExpression" -> InfixExpressionString(n)
      [] n.kind = "CallExpression" -> CallExpressionString(n)
      [] n.kind = "ArrayLiteral" -> ArrayLiteralString(n)
      [] n.kind = "IndexExpression" -> IndexExpressionString(n)
      [] n.kind = "HashLiteral" -> HashLiteralString(n)
      [] n.kind = "ExpressionStatement" -> ExpressionStatementString(n)
      [] n.kind = "ReturnStatement" -> ReturnStatementString(n)
      [] n.kind = "BlockStatement" -> BlockStatementString(n)

(***************************************************************************)
(* SpecAst: expression trees of identifiers, prefix, infix and call        *)
(* expressions, built bottom-up on a stack the way the parser's handlers   *)
(* return them, and String() called on the finished node.                  *)
(***************************************************************************)
IdentifierNames == {"a", "b", "c"}
PrefixOperators == {"-", "!"}
InfixOperators == {"+", "*"}

RECURSIVE NodeCount(_)
RECURSIVE NodeCountAll(_)
NodeCountAll(nodes) ==
    IF Len(nodes) = 0 THEN 0 ELSE NodeCount(nodes[1]) + NodeCountAll(Tail(nodes))

NodeCount(n) ==
    CASE n.kind = "Identifier" -> 1
      [] n.kind = "PrefixExpression" -> 1 + NodeCount(n.Right)
      [] n.kind = "InfixExpression" -> 1 + NodeCount(n.Left) + NodeCount(n.Right)
      [] n.kind = "CallExpression" ->
             1 + NodeCount(n.Function) + NodeCountAll(n.Arguments)
      [] n.kind = "ArrayLiteral" -> 1 + NodeCountAll(n.Elements)
      [] n.kind = "IndexExpression" -> 1 + NodeCount(n.Left) + NodeCount(n.Index)
      [] n.kind = "HashLiteral" ->
             1 + NodeCountAll([i \in DOMAIN n.Pairs |-> n.Pairs[i][1]])
               + NodeCountAll([i \in DOMAIN n.Pairs |-> n.Pairs[i][2]])

Top(st) == st[Len(st)]
Pop(st, k) == SubSeq(st, 1, Len(st) - k)

InitAst ==
    /\ stack = <<>>
    /\ rendered = <<>>

PushIdentifier ==
    \E v \in IdentifierNames :
        /\ NodeCountAll(stack) < MaxNodes
        /\ stack' = Append(stack, Identifier(v))
        /\ rendered' = <<>>

MakePrefixExpression ==
    \E op \in PrefixOperators :
        /\ Len(stack) >= 1
        /\ NodeCountAll(stack) < MaxNodes
        /\ stack' = Append(Pop(stack, 1), PrefixExpression(op, Top(stack)))
        /\ rendered' = <<>>

MakeInfixExpression ==
    \E op \in InfixOperators :
        /\ Len(stack) >= 2
        /\ NodeCountAll(stack) < MaxNodes
        /\ stack' = Append(Pop(stack, 2),
                           InfixExpression(stack[Len(stack) - 1], op, Top(stack)))
        /\ rendered' = <<>>

MakeCallExpression ==
    \E k \in 0 .. MaxArgs :
        /\ Len(stack) >= k + 1
        /\ NodeCountAll(stack) < MaxNodes
        /\ stack' = Append(Pop(stack, k + 1),
                           CallExpression(stack[Len(stack) - k],
                                          SubSeq(stack, Len(stack) - k + 1, Len(stack))))
        /\ rendered' = <<>>

CallString ==
    /\ Len(stack) >= 1
    /\ Len(rendered) < MaxCalls
    /\ \E s \in String(Top(stack)) : rendered' = Append(rendered, s)
    /\ UNCHANGED stack

InitAstSpec ==
    /\ InitAst
    /\ envs = <<>> /\ createdWith = <<>> /\ lastOp = NoOp
    /\ IdleRepl /\ IdleObj

NextAst ==
    \/ PushIdentifier /\ UNCHANGED <<envVars, replVars, objVars>>
    \/ MakePrefixExpression /\ UNCHANGED <<envVars, replVars, objVars>>
    \/ MakeInfixExpression /\ UNCHANGED <<envVars, replVars, objVars>>
    \/ MakeCallExpression /\ UNCHANGED <<envVars, replVars, objVars>>
    \/ CallString /\ UNCHANGED <<envVars, replVars, objVars>>

SpecAst == InitAstSpec /\ [][NextAst]_vars

\* The number of characters a fully parenthesized rendering of n has: the
\* identifiers and operators of n, one pair of parentheses per prefix and per
\* infix expression, one blank on either side of an infix operator, and the
\* punctuation of the calls.
RECURSIVE ParenthesizedLen(_)
RECURSIVE ParenthesizedLenAll(_)
ParenthesizedLenAll(nodes) ==
    IF Len(nodes) = 0 THEN 0
    ELSE ParenthesizedLen(nodes[1]) + ParenthesizedLenAll(Tail(nodes))

ParenthesizedLen(n) ==
    CASE n.kind = "Identifier" -> Len(n.Value)
      [] n.kind = "PrefixExpression" ->
             2 + Len(n.Operator) + ParenthesizedLen(n.Right)
      [] n.kind = "InfixExpression" ->
             4 + Len(n.Operator) + ParenthesizedLen(n.Left)
               + ParenthesizedLen(n.Right)
      [] n.kind = "CallExpression" ->
             ParenthesizedLen(n.Function) + 2 + ParenthesizedLenAll(n.Arguments)
               + (IF Len(n.Arguments) > 1 THEN 2 * (Len(n.Arguments) - 1) ELSE 0)

\* C9: String() of an expression node is a fully parenthesized reconstruction:
\* an infix node renders as "(" left " " operator " " right ")", a prefix node
\* as "(" operator operand ")", with the operands rendered the same way; so
\* Infix(*, Prefix(-, a), b) renders as ((-a) * b) and
\* Infix(+, Infix(+, a, b), c) as ((a + b) + c).
C9_StringFullyParenthesized ==
    \A i \in DOMAIN rendered :
        LET n == Top(stack)
            s == rendered[i]
        IN  /\ n.kind = "InfixExpression" =>
                   \E l \in String(n.Left), r \in String(n.Right) :
                       s = "(" \o l \o " " \o n.Operator \o " " \o r \o ")"
            /\ n.kind = "PrefixExpression" =>
                   \E r \in String(n.Right) : s = "(" \o n.Operator \o r \o ")"
            /\ Len(s) = ParenthesizedLen(n)
            /\ n = InfixExpression(PrefixExpression("-", Identifier("a")), "*",
                                   Identifier("b"))
                   => s = "((-a) * b)"
            /\ n = InfixExpression(InfixExpression(Identifier("a"), "+",
                                                   Identifier("b")),
                                   "+", Identifier("c"))
                   => s = "((a + b) + c)"
            /\ n = InfixExpression(Identifier("a"), "+",
                                   CallExpression(Identifier("b"),
                                                  <<Identifier("c")>>))
                   => s = "(a + b(c))"

\* String() was called on the tree of -a * b and returned ((-a) * b).
C9_Witness ==
    /\ Len(stack) = 1
    /\ Top(stack) = InfixExpression(PrefixExpression("-", Identifier("a")), "*",
                                    Identifier("b"))
    /\ rendered = <<"((-a) * b)", "((-a) * b)">>

(***************************************************************************)
(* Hashing (object/object.go).  A uint64 is a sequence of WordBytes bytes, *)
(* least significant first; an int64 is an integer of the model.           *)
(***************************************************************************)
BOOLEAN_OBJ == "BOOLEAN"
NULL_OBJ == "NULL"
RETURN_VALUE_OBJ == "RETURN_VALUE"
ERROR_OBJ == "ERROR"
FUNCTION_OBJ == "FUNCTION"
STRING_OBJ == "STRING"
BUILTIN_OBJ == "BUILTIN"
ARRAY_OBJ == "ARRAY"
HASH_OBJ == "HASH"

BooleanObj(b) == [type |-> BOOLEAN_OBJ, Value |-> b]
NullObj == [type |-> NULL_OBJ]
ReturnValueObj(o) == [type |-> RETURN_VALUE_OBJ, Value |-> o]
ErrorObj(msg) == [type |-> ERROR_OBJ, Message |-> msg]
FunctionObj(params, body) ==
    [type |-> FUNCTION_OBJ, Parameters |-> params, Body |-> body]
\* A Go string whose bytes the code reads is a sequence of characters.
StringObj(chars) == [type |-> STRING_OBJ, Value |-> chars]
BuiltinObj == [type |-> BUILTIN_OBJ]
ArrayObj(elements) == [type |-> ARRAY_OBJ, Elements |-> elements]
HashObj(pairs) == [type |-> HASH_OBJ, Pairs |-> pairs]

\* The low k bytes of the non-negative integer n.
RECURSIVE BytesOf(_, _)
BytesOf(n, k) ==
    IF k = 0 THEN <<>> ELSE <<n % 256>> \o BytesOf(n \div 256, k - 1)

\* uint64(v) for v an int64: the bits are kept, so a negative v is the
\* complement of -v - 1.
Uint64(v) ==
    IF v >= 0 THEN BytesOf(v, WordBytes)
    ELSE [i \in 1 .. WordBytes |-> 255 - BytesOf(-v - 1, WordBytes)[i]]

\* a ^ b on bytes.
RECURSIVE Xor8(_, _)
Xor8(a, b) ==
    IF a = 0 /\ b = 0 THEN 0
    ELSE ((a + b) % 2) + 2 * Xor8(a \div 2, b \div 2)

\* The sum of a[i] * b[k + 1 - i] for i in 1 .. j.
RECURSIVE Column(_, _, _, _)
Column(a, b, k, j) ==
    IF j = 0 THEN 0 ELSE a[j] * b[k + 1 - j] + Column(a, b, k, j - 1)

\* a * b on uint64 (the product modulo 2^64), from byte k on.
RECURSIVE MulFrom(_, _, _, _)
MulFrom(a, b, k, carry) ==
    IF k > WordBytes THEN <<>>
    ELSE LET t == carry + Column(a, b, k, k)
         IN  <<t % 256>> \o MulFrom(a, b, k + 1, t \div 256)

Mul64(a, b) == MulFrom(a, b, 1, 0)

\* hash/fnv: offset64 = 14695981039346656037, prime64 = 1099511628211.
FnvOffset64 == <<37, 35, 34, 132, 228, 156, 242, 203>>
FnvPrime64 == <<179, 1, 0, 0, 0, 1, 0, 0>>

\* []byte(s) for the characters used.
ByteOfChar == [c \in {"a", "b", "e", "n", "o"} |->
                 CASE c = "a" -> 97 [] c = "b" -> 98 [] c = "e" -> 101
                   [] c = "n" -> 110 [] c = "o" -> 111]

\* fnv.New64a().Write(data): for each byte c, hash ^= c; hash *= prime64.
RECURSIVE Fnv64a(_, _)
Fnv64a(hash, chars) ==
    IF Len(chars) = 0 THEN hash
    ELSE Fnv64a(Mul64([hash EXCEPT ![1] = Xor8(hash[1], ByteOfChar[chars[1]])],
                      FnvPrime64),
                Tail(chars))

\* Boolean.HashKey
BooleanHashKey(b) ==
    LET value == IF b.Value THEN BytesOf(1, WordBytes) ELSE BytesOf(0, WordBytes)
    IN  [Type |-> b.type, Value |-> value]

\* A key made from the magnitude of the integer.
IntegerHashKeyMagnitude(i) ==
    [Type |-> i.type, Value |-> Uint64(IF i.Value < 0 THEN -i.Value ELSE i.Value)]

\* Integer.HashKey
IntegerHashKey(i) == [Type |-> i.type, Value |-> Uint64(i.Value)]

\* String.HashKey
StringHashKey(s) == [Type |-> s.type, Value |-> Fnv64a(FnvOffset64, s.Value)]

Hashable(o) == o.type \in {BOOLEAN_OBJ, INTEGER_OBJ, STRING_OBJ}

\* Hashable.HashKey() on an Object value, by its dynamic type.
HashKeyOfValue(o) ==
    CASE o.type = BOOLEAN_OBJ -> BooleanHashKey(o)
      [] o.type = INTEGER_OBJ -> IntegerHashKey(o)
      [] o.type = STRING_OBJ -> StringHashKey(o)

\* A key made from the address of the object.
HashKeyByAddress(h, p) == [Type |-> h[p].type, Value |-> BytesOf(p, WordBytes)]

\* Hashable.HashKey() called through the pointer p.
HashKey(h, p) == HashKeyOfValue(h[p])

(***************************************************************************)
(* SpecHash: up to MaxObjs hashable Objects are allocated and HashKey() is *)
(* called on them, up to MaxCalls times each.                              *)
(***************************************************************************)
IntegerValues == {-2147483647, -256, -1, 0, 1, 255, 2147483647}
StringValues == {<<>>, <<"a">>, <<"a", "b">>, <<"o", "n", "e">>}

InitObj ==
    /\ heap = <<>>
    /\ hashKeys = <<>>
    /\ inspected = <<>>

\* The allocation of the Object o.
Alloc(o) ==
    /\ Len(heap) < MaxObjs
    /\ heap' = Append(heap, o)
    /\ hashKeys' = Append(hashKeys, <<>>)
    /\ inspected' = Append(inspected, <<>>)

NewHashable ==
    \/ \E v \in IntegerValues : Alloc(IntegerObj(v))
    \/ \E b \in BOOLEAN : Alloc(BooleanObj(b))
    \/ \E c \in StringValues : Alloc(StringObj(c))

CallHashKey ==
    \E p \in DOMAIN heap :
        /\ Hashable(heap[p])
        /\ Len(hashKeys[p]) < MaxCalls
        /\ hashKeys' = [hashKeys EXCEPT ![p] = Append(@, HashKey(heap, p))]
        /\ UNCHANGED <<heap, inspected>>

InitHashSpec ==
    /\ InitObj
    /\ envs = <<>> /\ createdWith = <<>> /\ lastOp = NoOp
    /\ IdleRepl /\ IdleAst

NextHash ==
    \/ NewHashable /\ UNCHANGED <<envVars, replVars, astVars>>
    \/ CallHashKey /\ UNCHANGED <<envVars, replVars, astVars>>

SpecHash == InitHashSpec /\ [][NextHash]_vars

\* C6: two Objects of the same hashable variant with the same underlying value
\* get identical HashKeys, and repeated calls of HashKey() on one Object return
\* the same HashKey every time.
C6_HashKeyDependsOnValueOnly ==
    \A p \in DOMAIN heap, q \in DOMAIN heap :
        (/\ Hashable(heap[p])
         /\ heap[p].type = heap[q].type
         /\ heap[p].Value = heap[q].Value) =>
            \A i \in DOMAIN hashKeys[p], j \in DOMAIN hashKeys[q] :
                hashKeys[p][i] = hashKeys[q][j]

\* Two separately allocated Strings with the same text of several characters,
\* one hashed twice and the other once.
C6_Witness ==
    \E p \in DOMAIN heap, q \in DOMAIN heap :
        /\ p # q
        /\ heap[p].type = STRING_OBJ
        /\ heap[q].type = STRING_OBJ
        /\ heap[p].Value = heap[q].Value
        /\ Len(heap[p].Value) >= 2
        /\ Len(hashKeys[p]) >= 2
        /\ Len(hashKeys[q]) >= 1

\* The word w plus the non-negative integer n, byte by byte: the sum modulo
\* 2^64 and the carry out of the top byte.
RECURSIVE WordPlus(_, _, _)
WordPlus(w, n, carry) ==
    IF Len(w) = 0 THEN [word |-> <<>>, carry |-> carry]
    ELSE LET t == w[1] + (n % 256) + carry
             rest == WordPlus(Tail(w), n \div 256, t \div 256)
         IN  [word |-> <<t % 256>> \o rest.word, carry |-> rest.carry]

ZeroWord == [i \in 1 .. WordBytes |-> 0]

\* C7: Boolean.HashKey() has value 1 for true and 0 for false; Integer.HashKey()
\* has as value the 64-bit two's-complement pattern of the signed value: v for
\* v >= 0 (0 + v gives the key, without carry), v + 2^64 for v < 0 (the key plus
\* -v is 2^64: all bytes zero and a carry out); each carries its variant's type;
\* and two distinct Integers never get the same HashKey.
C7_BooleanIntegerHashKeyValue ==
    /\ \A p \in DOMAIN heap : \A i \in DOMAIN hashKeys[p] :
           LET k == hashKeys[p][i]
               o == heap[p]
           IN  /\ o.type = BOOLEAN_OBJ =>
                      /\ k.Type = "BOOLEAN"
                      /\ k.Value = [ZeroWord EXCEPT ![1] = IF o.Value THEN 1 ELSE 0]
               /\ o.type = INTEGER_OBJ =>
                      /\ k.Type = "INTEGER"
                      /\ Len(k.Value) = WordBytes
                      /\ \A b \in DOMAIN k.Value : k.Value[b] \in 0 .. 255
                      /\ IF o.Value >= 0
                         THEN WordPlus(ZeroWord, o.Value, 0)
                                  = [word |-> k.Value, carry |-> 0]
                         ELSE WordPlus(k.Value, -o.Value, 0)
                                  = [word |-> ZeroWord, carry |-> 1]
    /\ \A p \in DOMAIN heap, q \in DOMAIN heap :
           (/\ heap[p].type = INTEGER_OBJ
            /\ heap[q].type = INTEGER_OBJ
            /\ heap[p].Value # heap[q].Value) =>
               \A i \in DOMAIN hashKeys[p], j \in DOMAIN hashKeys[q] :
                   hashKeys[p][i] # hashKeys[q][j]

\* A negative Integer and the Integer of the same magnitude, both hashed.
C7_Witness ==
    \E p \in DOMAIN heap, q \in DOMAIN heap :
        /\ heap[p].type = INTEGER_OBJ
        /\ heap[q].type = INTEGER_OBJ
        /\ heap[p].Value < 0
        /\ heap[q].Value = -heap[p].Value
        /\ Len(hashKeys[p]) >= 1
        /\ Len(hashKeys[q]) >= 1

(***************************************************************************)
(* Inspect (object/object.go).  Like String, Inspect is modelled as the    *)
(* set of strings a call may return: Hash.Inspect ranges over the Pairs    *)
(* map.                                                                    *)
(***************************************************************************)
DigitChar == [d \in 0 .. 9 |->
                CASE d = 0 -> "0" [] d = 1 -> "1" [] d = 2 -> "2" [] d = 3 -> "3"
                  [] d = 4 -> "4" [] d = 5 -> "5" [] d = 6 -> "6" [] d = 7 -> "7"
                  [] d = 8 -> "8" [] d = 9 -> "9"]

\* fmt.Sprintf("%d", n)
RECURSIVE FormatInt(_)
FormatInt(n) ==
    IF n < 0 THEN "-" \o FormatInt(-n)
    ELSE IF n < 10 THEN DigitChar[n]
    ELSE FormatInt(n \div 10) \o DigitChar[n % 10]

RECURSIVE Inspect(_)

\* for _, e := range elements { out = append(out, e.Inspect()) }
RECURSIVE InspectsOf(_)
InspectsOf(objects) ==
    IF Len(objects) = 0 THEN {<<>>}
    ELSE {<<s>> \o rest : s \in Inspect(objects[1]), rest \in InspectsOf(Tail(objects))}

IntegerInspect(i) == {FormatInt(i.Value)}

\* fmt.Sprintf("%t", b.Value)
BooleanInspect(b) == {IF b.Value THEN "true" ELSE "false"}

NullInspect(n) == {"null"}

ReturnValueInspect(rv) == Inspect(rv.Value)

ErrorInspect(e) == {"ERROR: " \o e.Message}

FunctionInspect(f) ==
    {"fn" \o "(" \o Join(params, ", ") \o ") {\n" \o body \o "\n}" :
        params \in StringsOf(f.Parameters), body \in String(f.Body)}

StringInspect(s) == {Join(s.Value, "")}

BuiltinInspect(b) == {"builtin function"}

ArrayInspect(ao) ==
    {"[" \o Join(elements, ", ") \o "]" : elements \in InspectsOf(ao.Elements)}

\* pairs = append(pairs, fmt.Sprintf("%s: %s", pair.Key.Inspect(),
\* pair.Value.Inspect())) for each entry, in the order the range delivers them.
RECURSIVE HashPairs(_, _)
HashPairs(h, order) ==
    IF Len(order) = 0 THEN {<<>>}
    ELSE {<<k \o ": " \o v>> \o rest :
             k \in Inspect(h.Pairs[order[1]].Key),
             v \in Inspect(h.Pairs[order[1]].Value),
             rest \in HashPairs(h, Tail(order))}

HashInspect(h) ==
    UNION {{"{" \o Join(pairs, ", ") \o "}" : pairs \in HashPairs(h, order)} :
           order \in RangeOrders(h.Pairs)}

\* Object.Inspect(), by the dynamic type of the Object.
Inspect(o) ==
    CASE o.type = INTEGER_OBJ -> IntegerInspect(o)
      [] o.type = BOOLEAN_OBJ -> BooleanInspect(o)
      [] o.type = NULL_OBJ -> NullInspect(o)
      [] o.type = RETURN_VALUE_OBJ -> ReturnValueInspect(o)
      [] o.type = ERROR_OBJ -> ErrorInspect(o)
      [] o.type = FUNCTION_OBJ -> FunctionInspect(o)
      [] o.type = STRING_OBJ -> StringInspect(o)
      [] o.type = BUILTIN_OBJ -> BuiltinInspect(o)
      [] o.type = ARRAY_OBJ -> ArrayInspect(o)
      [] o.type = HASH_OBJ -> HashInspect(o)

\* The Pairs map the evaluator builds for a hash literal whose evaluated pairs
\* are kvs: pairs[key.HashKey()] = HashPair{Key: key, Value: value}, in order.
RECURSIVE MakePairs(_, _)
MakePairs(m, kvs) ==
    IF Len(kvs) = 0 THEN m
    ELSE MakePairs(MapAssign(m, HashKeyOfValue(kvs[1][1]),
                             [Key |-> kvs[1][1], Value |-> kvs[1][2]]),
                   Tail(kvs))

EmptyPairs == [k \in {} |-> [Key |-> NilObj, Value |-> NilObj]]

(***************************************************************************)
(* SpecInspect: one kind of value at a time, either Objects, allocated and *)
(* inspected up to MaxCalls times each, or an AST, built as in SpecAst     *)
(* with array, index and hash literals too, and rendered up to MaxCalls    *)
(* times.                                                                  *)
(***************************************************************************)
SampleObjects ==
    << IntegerObj(-2147483647), IntegerObj(0), IntegerObj(10),
       BooleanObj(TRUE), BooleanObj(FALSE),
       NullObj,
       ReturnValueObj(IntegerObj(5)),
       ErrorObj("identifier not found: foobar"),
       FunctionObj(<<Identifier("a"), Identifier("b")>>,
                   BlockStatement(<<ExpressionStatement(
                       InfixExpression(Identifier("a"), "+", Identifier("b")))>>)),
       FunctionObj(<<>>, BlockStatement(<<ReturnStatement(Identifier("a"))>>)),
       StringObj(<<>>), StringObj(<<"o", "n", "e">>),
       BuiltinObj,
       ArrayObj(<<>>),
       ArrayObj(<<IntegerObj(1), StringObj(<<"a">>), ArrayObj(<<NullObj>>)>>),
       HashObj(EmptyPairs),
       HashObj(MakePairs(EmptyPairs, <<<<StringObj(<<"o", "n", "e">>), IntegerObj(1)>>>>)),
       HashObj(MakePairs(EmptyPairs, <<<<IntegerObj(1), IntegerObj(1)>>,
                                       <<IntegerObj(1), IntegerObj(2)>>>>)),
       HashObj(MakePairs(EmptyPairs, <<<<IntegerObj(1), IntegerObj(1)>>,
                                       <<BooleanObj(TRUE), IntegerObj(2)>>>>)) >>

NewObject ==
    \E i \in DOMAIN SampleObjects : Alloc(SampleObjects[i])

CallInspect ==
    \E p \in DOMAIN heap :
        /\ Len(inspected[p]) < MaxCalls
        /\ \E s \in Inspect(heap[p]) :
               inspected' = [inspected EXCEPT ![p] = Append(@, s)]
        /\ UNCHANGED <<heap, hashKeys>>

MakeArrayLiteral ==
    \E k \in 0 .. MaxArgs :
        /\ Len(stack) >= k
        /\ NodeCountAll(stack) < MaxNodes
        /\ stack' = Append(Pop(stack, k),
                           ArrayLiteral(SubSeq(stack, Len(stack) - k + 1, Len(stack))))
        /\ rendered' = <<>>

MakeIndexExpression ==
    /\ Len(stack) >= 2
    /\ NodeCountAll(stack) < MaxNodes
    /\ stack' = Append(Pop(stack, 2),
                       IndexExpression(stack[Len(stack) - 1], Top(stack)))
    /\ rendered' = <<>>

\* A hash literal of k pairs: the top 2k nodes are key, value, key, value, ...
MakeHashLiteral ==
    \E k \in 0 .. MaxArgs :
        /\ Len(stack) >= 2 * k
        /\ NodeCountAll(stack) < MaxNodes
        /\ stack' = Append(Pop(stack, 2 * k),
                           HashLiteral([i \in 1 .. k |->
                               <<stack[Len(stack) - 2 * k + 2 * i - 1],
                                 stack[Len(stack) - 2 * k + 2 * i]>>]))
        /\ rendered' = <<>>

InitInspectSpec ==
    /\ InitObj /\ InitAst
    /\ envs = <<>> /\ createdWith = <<>> /\ lastOp = NoOp
    /\ IdleRepl

NextInspect ==
    \/ stack = <<>> /\ NewObject /\ UNCHANGED <<envVars, replVars, astVars>>
    \/ stack = <<>> /\ CallInspect /\ UNCHANGED <<envVars, replVars, astVars>>
    \/ heap = <<>> /\ PushIdentifier /\ UNCHANGED <<envVars, replVars, objVars>>
    \/ heap = <<>> /\ MakePrefixExpression /\ UNCHANGED <<envVars, replVars, objVars>>
    \/ heap = <<>> /\ MakeInfixExpression /\ UNCHANGED <<envVars, replVars, objVars>>
    \/ heap = <<>> /\ MakeCallExpression /\ UNCHANGED <<envVars, replVars, objVars>>
    \/ heap = <<>> /\ MakeArrayLiteral /\ UNCHANGED <<envVars, replVars, objVars>>
    \/ heap = <<>> /\ MakeIndexExpression /\ UNCHANGED <<envVars, replVars, objVars>>
    \/ heap = <<>> /\ MakeHashLiteral /\ UNCHANGED <<envVars, replVars, objVars>>
    \/ heap = <<>> /\ CallString /\ UNCHANGED <<envVars, replVars, objVars>>

SpecInspect == InitInspectSpec /\ [][NextInspect]_vars

\* C8: calling Inspect() repeatedly on the same unchanged Object, and String()
\* repeatedly on the same unchanged AST node, returns the same string each
\* time, Hash objects and HashLiteral nodes of two or more pairs included.
C8_RepeatedCallsSameString ==
    /\ \A p \in DOMAIN heap : \A i \in DOMAIN inspected[p], j \in DOMAIN inspected[p] :
           inspected[p][i] = inspected[p][j]
    /\ \A i \in DOMAIN rendered, j \in DOMAIN rendered : rendered[i] = rendered[j]

(***************************************************************************)
(* REPL (repl/repl.go).  The lexer, the parser and the evaluator are not   *)
(* part of the sources at hand: a line is represented by what the parser   *)
(* makes of it (a program and the diagnostics), and Eval by its effect on  *)
(* the environment and its result for the few programs used.               *)
(***************************************************************************)
PROMPT == ">> "

LetProgram(name, val) == [kind |-> "let", name |-> name, val |-> val]
IdentifierProgram(name) == [kind |-> "identifier", name |-> name, val |-> NilObj]
CallProgram(param, arg) == [kind |-> "call", name |-> param, val |-> arg]
EmptyProgram == [kind |-> "empty", name |-> "", val |-> NilObj]

\* A line of the input: its length in bytes without the newline, and what
\* the parser makes of it.
Line(bytes, program, errors) ==
    [bytes |-> bytes, program |-> program, errors |-> errors]

\* The lines a user may type:
\*   let a = 1;    let a = 2;    let b = 1;    a    b    fn(b) { b }(2)
\*   the empty line, two malformed lines: one that still yields the
\*   statement let a = 2 and one diagnostic, one that yields two diagnostics;
\*   and let b = 1; followed by spaces up to the scanner's buffer limit.
SampleLines ==
    << Line(10, LetProgram("a", IntegerObj(1)), <<>>),
       Line(10, LetProgram("a", IntegerObj(2)), <<>>),
       Line(10, LetProgram("b", IntegerObj(1)), <<>>),
       Line(1, IdentifierProgram("a"), <<>>),
       Line(1, IdentifierProgram("b"), <<>>),
       Line(14, CallProgram("b", IntegerObj(2)), <<>>),
       Line(0, EmptyProgram, <<>>),
       Line(12, LetProgram("a", IntegerObj(2)),
            <<"expected next token to be IDENT, got = instead">>),
       Line(9, EmptyProgram,
            <<"expected next token to be =, got INT instead",
              "no prefix parse function for ) found">>),
       Line(MaxScanTokenSize, LetProgram("b", IntegerObj(1)), <<>>) >>

\* The inputs: up to MaxLines lines, each one of SampleLines.
Inputs ==
    UNION {[1 .. k -> DOMAIN SampleLines] : k \in 0 .. MaxLines}

\* scanner.Scan() on a reader holding the lines r (bufio.ScanLines): false at
\* the end of the input, and false with ErrTooLong when the next line does not
\* fit the buffer; true when the next line is delivered.
Scan(r) == r # <<>> /\ Head(r).bytes < MaxScanTokenSize

\* p := parser.New(lexer.New(line)); program := p.ParseProgram(); p.Errors()
ParseProgram(line) == [program |-> line.program, errors |-> line.errors]

\* evaluator.Eval(program, e) on the heap h of environments: the heap
\* afterwards and the result (NilObj when Eval returns nil).
\*   let          binds the name in e; no result
\*   identifier   looks the name up from e; an Error object when unbound
\*   call         applies fn(param) { param } to arg in a new environment
\*                enclosed by the function's environment, which is e
Eval(h, program, e) ==
    CASE program.kind = "let" ->
             [envs |-> Set(h, e, program.name, program.val), result |-> NilObj]
      [] program.kind = "identifier" ->
             LET r == Get(h, e, program.name)
             IN  [envs |-> h,
                  result |-> IF r.ok THEN r.obj
                             ELSE ErrorObj("identifier not found: " \o program.name)]
      [] program.kind = "call" ->
             LET h1 == NewEnclosedEnvironment(h, e)
                 h2 == Set(h1, Len(h1), program.name, program.val)
             IN  [envs |-> h2, result |-> Get(h2, Len(h2), program.name).obj]
      [] program.kind = "empty" -> [envs |-> h, result |-> NilObj]

\* printParserErrors: what has been written to out after it.
RECURSIVE printParserErrorsFrom(_, _)
printParserErrorsFrom(o, errors) ==
    IF Len(errors) = 0 THEN o
    ELSE printParserErrorsFrom(Append(o, "\t" \o errors[1] \o "\n"), Tail(errors))

printParserErrors(o, errors) ==
    printParserErrorsFrom(Append(o, "Parser errors:\n"), errors)

\* Start, lines 44-48: evaluated := evaluator.Eval(program, env); if
\* evaluated != nil, its Inspect() and a newline are written.  h and e are the
\* heap of environments and the environment given to Eval, o what has been
\* written so far.
EvalAndPrint(program, h, e, o) ==
    LET r == Eval(h, program, e)
    IN  /\ envs' = r.envs
        /\ evalLog' = Append(evalLog, [line |-> Len(input) + 1, env |-> e,
                                       before |-> h[e].store,
                                       after |-> r.envs[e].store])
        /\ IF r.result # NilObj
           THEN \E s \in Inspect(r.result) : out' = o \o <<s, "\n">>
           ELSE out' = o

\* A loop body without the continue after printParserErrors.
IterateWithoutContinue(line, h, e) ==
    LET parsed == ParseProgram(line)
    IN  /\ input' = Append(input, line)
        /\ env' = e
        /\ IF Len(parsed.errors) # 0
           THEN EvalAndPrint(parsed.program, h, e,
                             printParserErrors(out, parsed.errors))
           ELSE EvalAndPrint(parsed.program, h, e, out)
        /\ createdWith' = [x \in DOMAIN envs' |-> envs'[x].outer]
        /\ pc' = "prompt"

\* Start, lines 34-49: the body of the loop once scanner.Scan() has delivered
\* line, with h the heap of environments and e the value of env.
Iterate(line, h, e) ==
    LET parsed == ParseProgram(line)
    IN  /\ input' = Append(input, line)
        /\ env' = e
        /\ IF Len(parsed.errors) # 0
           THEN /\ out' = printParserErrors(out, parsed.errors)
                /\ envs' = h
                /\ evalLog' = evalLog
           ELSE EvalAndPrint(parsed.program, h, e, out)
        /\ createdWith' = [x \in DOMAIN envs' |-> envs'[x].outer]
        /\ pc' = "prompt"

InitRepl ==
    /\ pc = "start"
    /\ \E f \in Inputs : in = [i \in DOMAIN f |-> SampleLines[f[i]]]
    /\ input = <<>>
    /\ out = <<>>
    /\ env = Nil
    /\ evalLog = <<>>

\* Start, lines 24-25: scanner := bufio.NewScanner(in); env := NewEnvironment()
StartEnvironment ==
    /\ pc = "start"
    /\ envs' = NewEnvironment(envs)
    /\ createdWith' = Append(createdWith, Nil)
    /\ env' = Len(envs')
    /\ pc' = "prompt"
    /\ UNCHANGED <<in, input, out, evalLog>>

\* Start, line 28: fmt.Fprintf(out, PROMPT)
WritePrompt ==
    /\ pc = "prompt"
    /\ out' = Append(out, PROMPT)
    /\ pc' = "scan"
    /\ UNCHANGED <<envs, createdWith, in, input, env, evalLog>>

\* Start, lines 29-32: scanner.Scan() returns false at the end of the input.
ScanEndOfInput ==
    /\ pc = "scan"
    /\ in = <<>>
    /\ ~Scan(in)
    /\ pc' = "done"
    /\ UNCHANGED <<envs, createdWith, in, input, out, env, evalLog>>

\* Start, lines 29-32: scanner.Scan() returns false because the next line
\* does not fit the scanner's buffer; the rest of the input stays unread.
ScanTokenTooLong ==
    /\ pc = "scan"
    /\ in # <<>>
    /\ ~Scan(in)
    /\ pc' = "done"
    /\ UNCHANGED <<envs, createdWith, in, input, out, env, evalLog>>

\* A loop that makes its environment anew for every line.
ScanLineFreshEnvironment ==
    /\ pc = "scan"
    /\ Scan(in)
    /\ in' = Tail(in)
    /\ Iterate(Head(in), NewEnvironment(envs), Len(envs) + 1)

\* Start, lines 29-49: scanner.Scan() delivers a line and the loop body runs.
ScanLine ==
    /\ pc = "scan"
    /\ Scan(in)
    /\ in' = Tail(in)
    /\ Iterate(Head(in), envs, env)

InitReplSpec ==
    /\ InitRepl
    /\ envs = <<>> /\ createdWith = <<>> /\ lastOp = NoOp
    /\ IdleObj /\ IdleAst

NextRepl ==
    \/ StartEnvironment /\ UNCHANGED <<lastOp, objVars, astVars>>
    \/ WritePrompt /\ UNCHANGED <<lastOp, objVars, astVars>>
    \/ ScanEndOfInput /\ UNCHANGED <<lastOp, objVars, astVars>>
    \/ ScanTokenTooLong /\ UNCHANGED <<lastOp, objVars, astVars>>
    \/ ScanLine /\ UNCHANGED <<lastOp, objVars, astVars>>

SpecRepl == InitReplSpec /\ [][NextRepl]_vars

\* C4: Start creates exactly one Environment, before the first line is read,
\* and gives that same Environment to Eval for every evaluated line, so the
\* bindings made while evaluating a line are still present in the environment
\* given to Eval for every later line.
C4_OneEnvironmentForAllLines ==
    /\ pc = "start" => envs = <<>> /\ input = <<>>
    /\ pc # "start" =>
           /\ env \in DOMAIN envs
           /\ {x \in DOMAIN envs : createdWith[x] = Nil} = {env}
    /\ \A i \in DOMAIN evalLog : evalLog[i].env = env
    /\ \A i \in DOMAIN evalLog, j \in DOMAIN evalLog :
           i < j =>
               /\ evalLog[i].line < evalLog[j].line
               /\ \A n \in DOMAIN evalLog[i].after : n \in DOMAIN evalLog[j].before
               /\ j = i + 1 => evalLog[j].before = evalLog[i].after
    /\ \A i \in DOMAIN evalLog :
           i = Len(evalLog) => envs[env].store = evalLog[i].after

\* A line bound a, a malformed line came next, and the line after that
\* evaluated a and printed the value bound two lines before.
C4_Witness ==
    /\ Len(input) = 3
    /\ Len(evalLog) = 2
    /\ "a" \notin DOMAIN evalLog[1].before
    /\ "a" \in DOMAIN evalLog[1].after
    /\ Len(input[2].errors) # 0
    /\ input[3].program = IdentifierProgram("a")
    /\ evalLog[2].line = 3
    /\ out[Len(out) - 1] = "1"

\* C5: for a line whose parse yields at least one diagnostic the REPL prints
\* the diagnostics, one per line and prefixed, does not call Eval, leaves the
\* environments as they were and goes on to the next prompt and line; Eval is
\* called only for lines whose parse yields no diagnostic.
C5_DiagnosticsSkipEval ==
    [][Len(input') = Len(input) + 1 =>
          LET errors == input'[Len(input')].errors
          IN  IF Len(errors) # 0
              THEN /\ out' = out \o <<"Parser errors:\n">>
                                \o [i \in DOMAIN errors |-> "\t" \o errors[i] \o "\n"]
                   /\ evalLog' = evalLog
                   /\ envs' = envs
                   /\ env' = env
                   /\ pc' = "prompt"
              ELSE /\ Len(evalLog') = Len(evalLog) + 1
                   /\ evalLog'[Len(evalLog')].line = Len(input')]_vars

\* The line read last yielded two diagnostics, which were written one per line
\* after the header, while the environment holds a binding made by an earlier
\* line and the malformed line before it, which carried a statement, was not
\* evaluated either.
C5_Witness ==
    /\ pc = "prompt"
    /\ Len(input) = 3
    /\ input[1].program = LetProgram("a", IntegerObj(1))
    /\ Len(input[2].errors) = 1
    /\ input[2].program = LetProgram("a", IntegerObj(2))
    /\ Len(input[3].errors) = 2
    /\ Len(evalLog) = 1
    /\ envs[env].store["a"] = IntegerObj(1)
    /\ SubSeq(out, Len(out) - 2, Len(out))
           = <<"Parser errors:\n",
               "\texpected next token to be =, got INT instead\n",
               "\tno prefix parse function for ) found\n">>

\* What Start is to have written once it has processed lines, starting with
\* the heap of environments h and the environment e, and made the read
\* attempt that follows them: for each line the prompt and then either the
\* diagnostics, or the Inspect text of Eval's result and a newline, or
\* nothing when Eval returns no result; and the prompt of the last attempt.
RECURSIVE ExpectedOut(_, _, _)
ExpectedOut(lines, h, e) ==
    IF lines = <<>> THEN <<PROMPT>>
    ELSE LET l == Head(lines)
         IN  IF Len(l.errors) # 0
             THEN <<PROMPT, "Parser errors:\n">>
                      \o [i \in DOMAIN l.errors |-> "\t" \o l.errors[i] \o "\n"]
                      \o ExpectedOut(Tail(lines), h, e)
             ELSE LET r == Eval(h, l.program, e)
                  IN  <<PROMPT>>
                          \o (IF r.result # NilObj
                              THEN <<CHOOSE t \in Inspect(r.result) : TRUE, "\n">>
                              ELSE <<>>)
                          \o ExpectedOut(Tail(lines), r.envs, e)

\* The number of prompts in what has been written.
Prompts(o) == Cardinality({i \in DOMAIN o : o[i] = PROMPT})

\* The lines Start has evaluated are those without diagnostics, in input order.
EvaluatedInOrder ==
    /\ {evalLog[i].line : i \in DOMAIN evalLog}
           = {k \in DOMAIN input : Len(input[k].errors) = 0}
    /\ \A i, j \in DOMAIN evalLog : i < j => evalLog[i].line < evalLog[j].line

\* C12: on a finite input of n lines Start processes the lines in input
\* order, writes the prompt before each read attempt (n + 1 prompts in all),
\* writes for each line either its diagnostics or, when Eval's result is
\* present, the result's Inspect text and a newline (nothing when it is
\* absent), and returns when the input has reached its end: at every read
\* attempt the lines read so far have been processed so, and once Start has
\* returned all the lines of the input have.
C12_StartProcessesEveryLine ==
    /\ pc = "scan" =>
           /\ out = ExpectedOut(input, NewEnvironment(<<>>), 1)
           /\ Prompts(out) = Len(input) + 1
           /\ EvaluatedInOrder
    /\ pc = "done" =>
           /\ in = <<>>
           /\ out = ExpectedOut(input \o in, NewEnvironment(<<>>), 1)
           /\ Prompts(out) = Len(input \o in) + 1
           /\ EvaluatedInOrder

\* The same for the inputs whose lines all fit the scanner's buffer.
StartProcessesLinesThatFit ==
    (\A i \in DOMAIN in : in[i].bytes < MaxScanTokenSize)
        => C12_StartProcessesEveryLine

\* Start has returned from an input of three lines that fit: a binding, a
\* malformed line and a lookup that printed the value bound.
StartReturnedAtEndOfInput ==
    /\ pc = "done"
    /\ in = <<>>
    /\ Len(input) = 3
    /\ out = <<PROMPT, PROMPT, "Parser errors:\n",
               "\texpected next token to be IDENT, got = instead\n",
               PROMPT, "1", "\n", PROMPT>>
====
